---------------------------- MODULE Spec2Model ----------------------------
(***************************************************************************)
(* A model of recsplain/similarity_helpers.py: the backend selector        *)
(* parse_server_name and the four index adapters LazyHnsw,                 *)
(* FaissIndexFactory, SciKitNearestNeighbors and RedisIndex.               *)
(*                                                                         *)
(* One index object is alive at a time.  `cls` says which adapter class it *)
(* is, and the variable of that adapter (hnsw, sk, fa, rd) holds its       *)
(* fields.  `ret` records the last call and what it returned or raised,    *)
(* `requested` the optional engine the caller last asked the selector for. *)
(* Vectors are tuples of small naturals; an engine computes its scores on  *)
(* them exactly as the real engine does on floats.                         *)
(***************************************************************************)
EXTENDS Integers, Sequences, FiniteSets, TLC

VARIABLES installed, module, available_engines, requested, cls, hnsw, sk, fa, rd, ret

vars == <<installed, module, available_engines, requested, cls, hnsw, sk, fa, rd, ret>>

-----------------------------------------------------------------------------
(* Bounds of the model. *)

\* rows one index ever receives through add_items
MaxRows == 2
\* rows of one add_items batch
MaxBatch == 2
\* item ids are 1..MaxId
MaxId == 2
\* k of a search is 1..MaxK
MaxK == 2
\* capacities given to the constructor and to resize_index are 0..MaxCap
MaxCap == 2
\* with-blocks a caller nests on one RedisIndex
MaxScopes == 2

\* the coordinates of a vector
Coord == {0, 2}
\* the vectors: every index of the model is constructed with dim = 1
Vectors == [1 .. 1 -> Coord]
Spaces == {"l2", "ip", "cosine"}
Ids == 1 .. MaxId
\* the ef values given to set_ef
Efs == {50}

-----------------------------------------------------------------------------
(* Results of a call: a returned value, or the exception it raised. *)

Ok(v) == [err |-> "", val |-> v]
Raise(e) == [err |-> e, val |-> <<>>]
Call(op, arg, res) == [op |-> op, arg |-> arg, res |-> res]
NoCall == Call("none", <<>>, Ok(<<>>))
\* Python's None as a returned value
None == "None"
\* an optional list argument: a list, or None
Some(l) == [some |-> TRUE, val |-> l]
NoIds == [some |-> FALSE, val |-> <<>>]

SeqsUpTo(S, n) == UNION {[1 .. m -> S] : m \in 0 .. n}
Range(s) == {s[i] : i \in DOMAIN s}

-----------------------------------------------------------------------------
(* The selector: names are strings, modelled as tuples of characters. *)

Optional == {"hnswlib", "faiss", "redis"}

N_hnswlib == <<"h", "n", "s", "w", "l", "i", "b">>
N_hnsw == <<"h", "n", "s", "w">>
N_faiss == <<"f", "a", "i", "s", "s">>
N_flatfaiss == <<"f", "l", "a", "t", "f", "a", "i", "s", "s">>
N_redis == <<"r", "e", "d", "i", "s">>

\* the names the model calls parse_server_name with
Names ==
    { N_hnswlib, N_hnsw, N_faiss, N_flatfaiss, N_redis,
      <<"H", "N", "S", "W", "l", "i", "b">>, <<"H", "n", "s", "w">>,
      <<"F", "A", "I", "S", "S">>, <<"R", "e", "d", "i", "s">>,
      <<"R", "E", "D", "I", "S">>,
      <<"s", "k", "l", "e", "a", "r", "n">>, <<"r", "e", "d", "i", "s", "a", "i">>,
      <<>> }

\* str.lower() on the characters the names use
LowerChar(c) ==
    CASE c = "H" -> "h" [] c = "N" -> "n" [] c = "S" -> "s" [] c = "W" -> "w"
      [] c = "F" -> "f" [] c = "A" -> "a" [] c = "I" -> "i" [] c = "R" -> "r"
      [] c = "E" -> "e" [] c = "D" -> "d" [] OTHER -> c
Lower(s) == [i \in DOMAIN s |-> LowerChar(s[i])]

\* Module import, lines 1-28 and the class statements.  hnswlib missing makes
\* hnswlib the namedtuple HNSWMock(Index=None, max_elements=0), and the class
\* statement `class LazyHnsw(hnswlib.Index)` then has None as its base class:
\* Python raises TypeError and the import of the module fails.
ImportModule(inst) ==
    IF "hnswlib" \in inst
      THEN [status |-> "loaded", engines |-> {"sklearn"} \cup inst]
      ELSE [status |-> "TypeError", engines |-> {"sklearn"} \cup inst]

\* the optional engine whose alias list holds sname ("": none does)
EngineOf(sname) ==
    IF sname \in {N_hnswlib, N_hnsw} THEN "hnswlib"
    ELSE IF sname \in {N_faiss, N_flatfaiss} THEN "faiss"
    ELSE IF sname \in {N_redis} THEN "redis"
    ELSE ""

\* the mutant matches the lower-cased name
parse_server_name_lower(sname, engines) ==
    LET e == EngineOf(Lower(sname)) IN
    IF e = "hnswlib" /\ "hnswlib" \in engines THEN "LazyHnsw"
    ELSE IF e = "faiss" /\ "faiss" \in engines THEN "FaissIndexFactory"
    ELSE IF e = "redis" /\ "redis" \in engines THEN "RedisIndex"
    ELSE "SciKitNearestNeighbors"

parse_server_name(sname, engines) ==
    IF sname \in {N_hnswlib, N_hnsw}
      THEN IF "hnswlib" \in engines THEN "LazyHnsw" ELSE "SciKitNearestNeighbors"
    ELSE IF sname \in {N_faiss, N_flatfaiss}
      THEN IF "faiss" \in engines THEN "FaissIndexFactory" ELSE "SciKitNearestNeighbors"
    ELSE IF sname \in {N_redis}
      THEN IF "redis" \in engines THEN "RedisIndex" ELSE "SciKitNearestNeighbors"
    ELSE "SciKitNearestNeighbors"

-----------------------------------------------------------------------------
(* Arithmetic of the engines on the model's vectors. *)

RECURSIVE SumTo(_, _)
SumTo(f, n) == IF n = 0 THEN 0 ELSE f[n] + SumTo(f, n - 1)
Dot(a, b) == SumTo([i \in DOMAIN a |-> a[i] * b[i]], Len(a))
SqDist(a, b) == SumTo([i \in DOMAIN a |-> (a[i] - b[i]) * (a[i] - b[i])], Len(a))
\* the square root of a perfect square (every squared distance of one-dimensional
\* vectors is one)
Sqrt(n) == CHOOSE r \in 0 .. n : r * r = n
\* v / |v| for a one-dimensional vector of naturals; the zero vector stays zero
Normalize(v) == [i \in DOMAIN v |-> IF v[i] > 0 THEN 1 ELSE 0]

\* the positions of `scores`, ordered by score (ties by position), the first k
Rank(scores, i) ==
    1 + Cardinality({j \in DOMAIN scores :
                        scores[j] < scores[i] \/ (scores[j] = scores[i] /\ j < i)})
Nearest(scores, k) ==
    [r \in 1 .. k |-> CHOOSE i \in DOMAIN scores : Rank(scores, i) = r]

Rectangular(data, dim) == \A i \in DOMAIN data : Len(data[i]) = dim

-----------------------------------------------------------------------------
(* sklearn.neighbors.NearestNeighbors, as SciKitNearestNeighbors uses it.   *)
(* fit_X is the array the estimator was last fitted on (<<>>: never).       *)

\* metric "l2" is the euclidean distance, "cosine" is 1 - cos
SkDistance(space, a, b) ==
    IF space = "cosine" THEN 1 - Dot(Normalize(a), Normalize(b))
    ELSE Sqrt(SqDist(a, b))

\* NearestNeighbors.fit(X): an empty or ragged X is rejected with ValueError
SkFitOk(X) == X # <<>> /\ Rectangular(X, Len(X[1]))

\* NearestNeighbors.kneighbors(data, k, return_distance=True) on fit_X:
\* (distances, positions in fit_X), one row per query
SkKneighbors(space, fit_X, data, k) ==
    IF fit_X = <<>> THEN Raise("NotFittedError")
    ELSE IF ~Rectangular(data, Len(fit_X[1])) THEN Raise("ValueError")
    ELSE IF k > Len(fit_X) THEN Raise("ValueError")
    ELSE LET row(q) == [j \in DOMAIN fit_X |-> SkDistance(space, fit_X[j], data[q])]
             near(q) == Nearest(row(q), k)
         IN Ok(<< [q \in DOMAIN data |-> [r \in 1 .. k |-> row(q)[near(q)[r]]]],
                  [q \in DOMAIN data |-> [r \in 1 .. k |-> near(q)[r] - 1]] >>)

-----------------------------------------------------------------------------
(* class SciKitNearestNeighbors *)

SciKitNearestNeighbors_new(space, dim) ==
    [space |-> IF space = "ip" THEN "cosine" ELSE space,
     dim |-> dim, items |-> <<>>, ids |-> <<>>, fitted |-> FALSE, fit_X |-> <<>>]

\* init(): fit on the items, then set the flag
SciKitNearestNeighbors_init(self) ==
    IF SkFitOk(self.items)
      THEN [st |-> [self EXCEPT !.fit_X = self.items, !.fitted = TRUE], res |-> Ok(None)]
      ELSE [st |-> self, res |-> Raise("ValueError")]

\* add_items(data, ids): items.extend(data) runs before ids.extend(ids), which
\* raises TypeError for ids=None and leaves the flag as it was
SciKitNearestNeighbors_add_items(self, data, ids) ==
    IF ~ids.some
      THEN [st |-> [self EXCEPT !.items = self.items \o data], res |-> Raise("TypeError")]
      ELSE [st |-> [self EXCEPT !.items = self.items \o data,
                                !.ids = self.ids \o ids.val,
                                !.fitted = FALSE],
            res |-> Ok(None)]

\* list.index(x): the first position of x
ListIndex(l, x) == CHOOSE i \in DOMAIN l : l[i] = x /\ \A j \in 1 .. i - 1 : l[j] # x

\* get_items(ids): [items[ids.index(i)] for i in ids]
SciKitNearestNeighbors_get_items(self, ids) ==
    IF ~ids.some THEN Raise("TypeError")
    ELSE IF \E n \in DOMAIN ids.val : ids.val[n] \notin Range(self.ids)
      THEN Raise("ValueError")
    ELSE IF \E n \in DOMAIN ids.val : ListIndex(self.ids, ids.val[n]) > Len(self.items)
      THEN Raise("IndexError")
    ELSE Ok([n \in DOMAIN ids.val |-> self.items[ListIndex(self.ids, ids.val[n])]])

\* the mutant answers from the estimator as it is and fits afterwards
SciKitNearestNeighbors_search_fit_late(self, data, k) ==
    LET fit == ~self.fitted
        res == SkKneighbors(self.space, self.fit_X, data, k)
    IN IF fit /\ ~SkFitOk(self.items) THEN [st |-> self, res |-> Raise("ValueError")]
       ELSE [st |-> IF fit THEN [self EXCEPT !.fit_X = self.items, !.fitted = TRUE]
                    ELSE self,
             res |-> res]

\* search(data, k): fit when the flag is down, then kneighbors; returns
\* (scores, idx)
SciKitNearestNeighbors_search(self, data, k) ==
    IF ~self.fitted /\ ~SkFitOk(self.items) THEN [st |-> self, res |-> Raise("ValueError")]
    ELSE LET s == IF self.fitted THEN self
                  ELSE [self EXCEPT !.fit_X = self.items, !.fitted = TRUE]
         IN [st |-> s, res |-> SkKneighbors(s.space, s.fit_X, data, k)]

SciKitNearestNeighbors_get_max_elements(self) == -1
SciKitNearestNeighbors_get_current_count(self) == Len(self.items)

-----------------------------------------------------------------------------
(* hnswlib.Index, the base class of LazyHnsw.  `inited` says that            *)
(* init_index has allocated the graph; `items` are the stored (label,       *)
(* vector) pairs in insertion order; cur_l counts the rows ever added.      *)
(* zero_ok is whether the platform's allocator gives a usable block for a   *)
(* request of zero bytes (implementation-defined in C).                     *)

\* the RuntimeErrors of hnswlib the model tells apart, by their messages
ErrInitiated == "RuntimeError: The index is already initiated."
ErrNoMemory == "RuntimeError: Not enough memory"
ErrLimit == "RuntimeError: The number of elements exceeds the specified limit"

HnswIndex_new(space, dim) ==
    [space |-> space, dim |-> dim, inited |-> FALSE, max_elements_ |-> 0,
     items |-> <<>>, cur_l |-> 0, M |-> 0, ef_construction |-> 0, ef |-> 10]

\* the properties max_elements and element_count: 0 before init_index
Hnsw_max_elements(self) == IF self.inited THEN self.max_elements_ ELSE 0
Hnsw_element_count(self) == IF self.inited THEN Len(self.items) ELSE 0

Hnsw_init_index(self, max_elements, M, ef_construction, zero_ok) ==
    IF self.inited THEN [st |-> self, res |-> Raise(ErrInitiated)]
    ELSE IF max_elements = 0 /\ ~zero_ok THEN [st |-> self, res |-> Raise(ErrNoMemory)]
    ELSE [st |-> [self EXCEPT !.inited = TRUE, !.max_elements_ = max_elements,
                              !.M = M, !.ef_construction = ef_construction,
                              !.cur_l = 0],
          res |-> Ok(None)]

\* resize_index(n): refused below the current count; any other size is taken
Hnsw_resize_index(self, new_size, zero_ok) ==
    IF new_size < Len(self.items) THEN [st |-> self, res |-> Raise("RuntimeError")]
    ELSE IF new_size = 0 /\ ~zero_ok THEN [st |-> self, res |-> Raise(ErrNoMemory)]
    ELSE [st |-> [self EXCEPT !.max_elements_ = new_size], res |-> Ok(None)]

HnswStored(self, v) == IF self.space = "cosine" THEN Normalize(v) ELSE v
HnswLabels(self) == {self.items[i].id : i \in DOMAIN self.items}
HnswPos(self, label) == CHOOSE i \in DOMAIN self.items : self.items[i].id = label

\* addPoint row by row: a known label is updated in place, a new one takes a
\* slot, and a new one with no slot left raises with the earlier rows stored
RECURSIVE HnswAddRows(_, _, _, _)
HnswAddRows(self, data, labels, i) ==
    IF i > Len(data)
      THEN [st |-> [self EXCEPT !.cur_l = self.cur_l + Len(data)], res |-> Ok(None)]
    ELSE IF labels[i] \in HnswLabels(self)
      THEN HnswAddRows([self EXCEPT !.items[HnswPos(self, labels[i])].vec =
                                        HnswStored(self, data[i])],
                       data, labels, i + 1)
    ELSE IF Len(self.items) >= self.max_elements_
      THEN [st |-> self, res |-> Raise(ErrLimit)]
    ELSE HnswAddRows([self EXCEPT !.items = Append(self.items,
                                      [id |-> labels[i], vec |-> HnswStored(self, data[i])])],
                     data, labels, i + 1)

\* add_items(data, ids): shapes are checked before the first row is written (an
\* empty list is a one-dimensional array of 0 features, which is refused);
\* ids=None labels the rows cur_l, cur_l + 1, ...
Hnsw_add_items(self, data, ids) ==
    IF data = <<>> \/ ~Rectangular(data, self.dim)
      THEN [st |-> self, res |-> Raise("RuntimeError")]
    ELSE IF ids.some /\ Len(ids.val) # Len(data)
      THEN [st |-> self, res |-> Raise("RuntimeError")]
    ELSE HnswAddRows(self, data,
                     IF ids.some THEN ids.val
                     ELSE [i \in DOMAIN data |-> self.cur_l + i - 1],
                     1)

Hnsw_get_items(self, ids) ==
    IF ~ids.some THEN Ok(<<>>)
    ELSE IF \E n \in DOMAIN ids.val : ids.val[n] \notin HnswLabels(self)
      THEN Raise("RuntimeError")
    ELSE Ok([n \in DOMAIN ids.val |-> self.items[HnswPos(self, ids.val[n])].vec])

\* "l2" is the squared distance, "ip" and "cosine" are 1 - dot product
HnswDistance(space, a, b) == IF space = "l2" THEN SqDist(a, b) ELSE 1 - Dot(a, b)

\* knn_query(data, k): (labels, distances), one row per query; fewer than k
\* stored elements raise
Hnsw_knn_query(self, data, k) ==
    IF ~Rectangular(data, self.dim) THEN Raise("RuntimeError")
    ELSE IF k > Len(self.items) THEN Raise("RuntimeError")
    ELSE LET row(q) == [j \in DOMAIN self.items |->
                          HnswDistance(self.space, self.items[j].vec,
                                       HnswStored(self, data[q]))]
             near(q) == Nearest(row(q), k)
         IN Ok(<< [q \in DOMAIN data |-> [r \in 1 .. k |-> self.items[near(q)[r]].id]],
                  [q \in DOMAIN data |-> [r \in 1 .. k |-> row(q)[near(q)[r]]]] >>)

Hnsw_set_ef(self, ef) == [self EXCEPT !.ef = ef]

-----------------------------------------------------------------------------
(* class LazyHnsw(hnswlib.Index) *)

\* the defaults of the constructor's parameters M and ef_construction
DefaultM == 16
DefaultEfConstruction == 200

LazyHnsw_new(space, dim, max_elements, ef_construction, M) ==
    [base |-> HnswIndex_new(space, dim),
     init_max_elements |-> max_elements,
     init_ef_construction |-> ef_construction,
     init_M |-> M]

LazyHnsw_get_max_elements(self) == Hnsw_max_elements(self.base)
LazyHnsw_get_current_count(self) == Hnsw_element_count(self.base)

\* what a call on the base class makes of the object
Super(self, r) == [st |-> [self EXCEPT !.base = r.st], res |-> r.res]

\* init(max_elements=0)
LazyHnsw_init(self, max_elements, zero_ok) ==
    Super(self, Hnsw_init_index(self.base,
                                IF max_elements = 0 THEN self.init_max_elements
                                ELSE max_elements,
                                self.init_M, self.init_ef_construction, zero_ok))

Max(a, b) == IF a >= b THEN a ELSE b

\* the mutant inserts without growing the index first
LazyHnsw_add_items_no_resize(self, data, ids, zero_ok) ==
    LET a == IF LazyHnsw_get_max_elements(self) = 0
               THEN LazyHnsw_init(self, 0, zero_ok)
               ELSE [st |-> self, res |-> Ok(None)]
    IN IF a.res.err # "" THEN a
       ELSE Super(a.st, Hnsw_add_items(a.st.base, data, ids))

\* add_items(data, ids): init when max_elements is 0, grow when the batch does
\* not fit, then the base class's add_items
LazyHnsw_add_items(self, data, ids, zero_ok) ==
    LET a == IF LazyHnsw_get_max_elements(self) = 0
               THEN LazyHnsw_init(self, 0, zero_ok)
               ELSE [st |-> self, res |-> Ok(None)]
        need == Len(data) + LazyHnsw_get_current_count(a.st)
        b == IF LazyHnsw_get_max_elements(a.st) < need
               THEN Super(a.st, Hnsw_resize_index(a.st.base,
                                   Max(need, LazyHnsw_get_max_elements(a.st)), zero_ok))
               ELSE a
    IN IF a.res.err # "" THEN a
       ELSE IF b.res.err # "" THEN b
       ELSE Super(b.st, Hnsw_add_items(b.st.base, data, ids))

\* the mutant asks the engine although nothing is allocated
LazyHnsw_get_items_unguarded(self, ids) == Hnsw_get_items(self.base, ids)

LazyHnsw_get_items(self, ids) ==
    IF LazyHnsw_get_max_elements(self) = 0 THEN Ok(<<>>)
    ELSE Hnsw_get_items(self.base, ids)

LazyHnsw_knn_query(self, data, k) ==
    IF LazyHnsw_get_max_elements(self) = 0 THEN Ok(<< <<>>, <<>> >>)
    ELSE Hnsw_knn_query(self.base, data, k)

\* the mutant returns the pair in the engine's order, labels first
LazyHnsw_search_labels_first(self, data, k) == LazyHnsw_knn_query(self, data, k)

\* search(data, k): I, D = knn_query(data, k); return (D, I)
LazyHnsw_search(self, data, k) ==
    LET r == LazyHnsw_knn_query(self, data, k)
    IN IF r.err # "" THEN r ELSE Ok(<< r.val[2], r.val[1] >>)

\* resize_index(size): init(size) on capacity 0, else the engine's resize_index
LazyHnsw_resize_index(self, size, zero_ok) ==
    IF LazyHnsw_get_max_elements(self) = 0 THEN LazyHnsw_init(self, size, zero_ok)
    ELSE Super(self, Hnsw_resize_index(self.base, size, zero_ok))

LazyHnsw_set_ef(self, ef) ==
    IF LazyHnsw_get_max_elements(self) = 0
      THEN [self EXCEPT !.init_ef_construction = ef]
      ELSE [self EXCEPT !.base = Hnsw_set_ef(self.base, ef)]

-----------------------------------------------------------------------------
(* class FaissIndexFactory: faiss.IndexIDMap2 over a flat index.  `rows` are *)
(* the (id, vector) pairs in the order they were added.                     *)

\* the score faiss pads a short result row with (FLT_MAX), beyond every score
\* of the model
FltMax == 2 ^ 20

\* __init__(space, dim, index_factory): "ip" and "cosine" both give the inner
\* product (cosine with a line on stderr), "l2" the squared distance
FaissIndexFactory_new(space, dim) ==
    [metric |-> IF space \in {"ip", "cosine"} THEN "ip" ELSE "l2",
     dim |-> dim, rows |-> <<>>]

\* add_items(data, ids): the arrays are built and checked (an empty list is not
\* a two-dimensional array), then all rows are appended by add_with_ids
FaissIndexFactory_add_items(self, data, ids) ==
    IF ~ids.some THEN [st |-> self, res |-> Raise("TypeError")]
    ELSE IF data = <<>> THEN [st |-> self, res |-> Raise("ValueError")]
    ELSE IF ~Rectangular(data, self.dim) \/ Len(ids.val) # Len(data)
      THEN [st |-> self, res |-> Raise("AssertionError")]
    ELSE [st |-> [self EXCEPT !.rows = self.rows \o
                     [i \in DOMAIN data |-> [id |-> ids.val[i], vec |-> data[i]]]],
          res |-> Ok(None)]

FaissIds(self) == {self.rows[i].id : i \in DOMAIN self.rows}
\* IndexIDMap2.reconstruct(id): the row the id was last added with
FaissReconstruct(self, id) ==
    self.rows[CHOOSE i \in DOMAIN self.rows :
                 self.rows[i].id = id /\ \A j \in i + 1 .. Len(self.rows) : self.rows[j].id # id].vec

\* get_items(ids): np.vstack of the reconstructed rows (vstack of nothing raises)
FaissIndexFactory_get_items(self, ids) ==
    IF ~ids.some THEN Raise("TypeError")
    ELSE IF \E n \in DOMAIN ids.val : ids.val[n] \notin FaissIds(self)
      THEN Raise("RuntimeError")
    ELSE IF ids.val = <<>> THEN Raise("ValueError")
    ELSE Ok([n \in DOMAIN ids.val |-> FaissReconstruct(self, ids.val[n])])

FaissIndexFactory_get_max_elements(self) == -1
FaissIndexFactory_get_current_count(self) == Len(self.rows)

\* search(data, k): (D, I), rows of exactly k entries: best first (smallest
\* squared distance, or largest inner product), then padding with id -1
FaissIndexFactory_search(self, data, k) ==
    IF ~Rectangular(data, self.dim) THEN Raise("AssertionError")
    ELSE LET n == Len(self.rows)
             score(q) == [j \in DOMAIN self.rows |->
                            IF self.metric = "l2" THEN SqDist(self.rows[j].vec, data[q])
                            ELSE Dot(self.rows[j].vec, data[q])]
             key(q) == [j \in DOMAIN self.rows |->
                            IF self.metric = "l2" THEN score(q)[j] ELSE 0 - score(q)[j]]
             near(q) == Nearest(key(q), IF k < n THEN k ELSE n)
             pad == IF self.metric = "l2" THEN FltMax ELSE 0 - FltMax
         IN Ok(<< [q \in DOMAIN data |->
                     [r \in 1 .. k |-> IF r <= n THEN score(q)[near(q)[r]] ELSE pad]],
                  [q \in DOMAIN data |->
                     [r \in 1 .. k |-> IF r <= n THEN self.rows[near(q)[r]].id ELSE -1]] >>)

-----------------------------------------------------------------------------
(* class RedisIndex.  `store` is the remote keyspace: a function from the   *)
(* keys present to their hashes.  `pipe` is the pipeline handle: None, or   *)
(* the commands queued on the open pipeline.                                *)

DigitChars == <<"0", "1", "2", "3", "4", "5", "6", "7", "8", "9">>
RECURSIVE Digits(_)
Digits(n) == IF n < 10 THEN <<DigitChars[n + 1]>>
             ELSE Digits(n \div 10) \o <<DigitChars[(n % 10) + 1]>>
\* str(n), as a tuple of characters
Str(n) == IF n < 0 THEN <<"-">> \o Digits(0 - n) ELSE Digits(n)

\* the four little-endian bytes of the float32 x, for the model's coordinates
F32(x) == CASE x = 0 -> <<0, 0, 0, 0>>
            [] x = 1 -> <<0, 0, 128, 63>>
            [] x = 2 -> <<0, 0, 0, 64>>
            [] x = 3 -> <<0, 0, 64, 64>>
            [] x = 4 -> <<0, 0, 128, 64>>
RECURSIVE ToBytes(_)
\* np.array(v).astype(np.float32).tobytes()
ToBytes(v) == IF v = <<>> THEN <<>> ELSE F32(Head(v)) \o ToBytes(Tail(v))
\* what the server reads back from an embedding of 4 * dim bytes
RECURSIVE FromBytes(_)
FromBytes(b) ==
    IF b = <<>> THEN <<>>
    ELSE << CHOOSE x \in Coord : F32(x) = SubSeq(b, 1, 4) >> \o FromBytes(SubSeq(b, 5, Len(b)))

ItemKey(id) == <<"item:">> \o Str(id)
\* the pipeline handle when it is None; Some(cmds) is an open pipeline
NoPipe == [some |-> FALSE, val |-> <<>>]

\* __init__ with credentials: the fields, the client, pipe = None, init_hnsw()
\* (`scopes` counts the with-blocks the caller has open on the object)
RedisIndex_new(space, dim, max_elements, ef_construction, M) ==
    [space |-> space, dim |-> dim, max_elements |-> max_elements,
     ef_construction |-> ef_construction, M |-> M, pipe |-> NoPipe, store |-> <<>>,
     scopes |-> 0]

\* pipe.execute(): the queued HSETs are applied in order
RECURSIVE RedisExecute(_, _)
RedisExecute(store, cmds) ==
    IF cmds = <<>> THEN store
    ELSE RedisExecute([k \in DOMAIN store \cup {Head(cmds).key} |->
                          IF k = Head(cmds).key THEN Head(cmds).mapping ELSE store[k]],
                      Tail(cmds))

Min(a, b) == IF a <= b THEN a ELSE b

\* the HSETs that add_items queues: one per zip(data, ids) pair
RedisHsets(data, ids) ==
    [i \in 1 .. Min(Len(data), Len(ids)) |->
        [key |-> ItemKey(ids[i]),
         mapping |-> [embedding |-> ToBytes(data[i]),
                      item_id |-> Str(ids[i]),
                      partition |-> ""]]]

\* add_items(data, ids, partition=None): the HSETs are queued on a fresh
\* pipeline(transaction=False), execute, pipe = None.  zip(data, None) raises
\* with the pipeline left on the handle.  The server applies the commands of
\* a pipeline without MULTI one by one: `done` is how many it has applied when
\* the connection breaks (all of them: it does not break), and execute() then
\* raises with the emptied pipeline left on the handle.
RedisIndex_add_items(self, data, ids, done) ==
    IF ~ids.some THEN [st |-> [self EXCEPT !.pipe = Some(<<>>)], res |-> Raise("TypeError")]
    ELSE LET cmds == RedisHsets(data, ids.val)
         IN IF done < Len(cmds)
              THEN [st |-> [self EXCEPT
                               !.store = RedisExecute(self.store, SubSeq(cmds, 1, done)),
                               !.pipe = Some(<<>>)],
                    res |-> Raise("ConnectionError")]
              ELSE [st |-> [self EXCEPT !.store = RedisExecute(self.store, cmds),
                                        !.pipe = NoPipe],
                    res |-> Ok(None)]

\* __enter__: a new pipeline on the handle
RedisIndex_enter(self) == [self EXCEPT !.pipe = Some(<<>>), !.scopes = @ + 1]

\* __exit__: self.pipe.execute(), which is an AttributeError on None, then
\* pipe = None
RedisIndex_exit(self) ==
    IF ~self.pipe.some
      THEN [st |-> [self EXCEPT !.scopes = @ - 1], res |-> Raise("AttributeError")]
      ELSE [st |-> [self EXCEPT !.store = RedisExecute(self.store, self.pipe.val),
                                !.pipe = NoPipe, !.scopes = @ - 1],
            res |-> Ok(None)]

\* get_items(ids): HGET item:<id> embedding for each id; a missing key gives None
RedisIndex_get_items(self, ids) ==
    IF ~ids.some THEN Raise("TypeError")
    ELSE Ok([n \in DOMAIN ids.val |->
               IF ItemKey(ids.val[n]) \in DOMAIN self.store
                 THEN self.store[ItemKey(ids.val[n])].embedding ELSE <<None>>])

RedisIndex_get_current_count(self) == Raise("NotImplementedError")
RedisIndex_get_max_elements(self) == self.max_elements

\* the hashes the vector index holds: those whose embedding has 4 * dim bytes,
\* in the order of their ids
RedisIndexed(self) ==
    LET in == {j \in 0 .. 9 : ItemKey(j) \in DOMAIN self.store
                              /\ Len(self.store[ItemKey(j)].embedding) = 4 * self.dim}
    IN [r \in 1 .. Cardinality(in) |->
          self.store[ItemKey(CHOOSE j \in in : Cardinality({i \in in : i < j}) = r - 1)]]

\* "l2" is the squared distance, "ip" is 1 - dot product, "cosine" is 1 - cos
RedisDistance(space, a, b) ==
    IF space = "l2" THEN SqDist(a, b)
    ELSE IF space = "ip" THEN 1 - Dot(a, b)
    ELSE 1 - Dot(Normalize(a), Normalize(b))

\* search(data, k): FT.SEARCH with KNN k, sorted by vector_score, paged to k;
\* returns (scores, ids), both lists of strings
RedisIndex_search(self, data, k) ==
    IF Len(ToBytes(IF Len(data) = 1 THEN data[1] ELSE <<>>)) # 4 * self.dim
         \/ Len(data) # 1
      THEN Raise("ResponseError")
    ELSE LET docs == RedisIndexed(self)
             n == Len(docs)
             row == [j \in DOMAIN docs |->
                       RedisDistance(self.space, FromBytes(docs[j].embedding), data[1])]
             near == Nearest(row, Min(k, n))
         IN Ok(<< [r \in 1 .. Min(k, n) |-> Str(row[near[r]])],
                  [r \in 1 .. Min(k, n) |-> docs[near[r]].item_id] >>)

-----------------------------------------------------------------------------
(* The state machine. *)

NoObject == <<>>

\* the batches, id lists and queries the calls are made with
Batches == SeqsUpTo(Vectors, MaxBatch)
IdLists == {Some(l) : l \in SeqsUpTo(Ids, MaxBatch)} \cup {NoIds}
Queries == {<<q>> : q \in Vectors}
Ks == 1 .. MaxK
Caps == 0 .. MaxCap

InitVars ==
    /\ module = "unloaded"
    /\ available_engines = {}
    /\ requested = ""
    /\ cls = "none"
    /\ hnsw = NoObject /\ sk = NoObject /\ fa = NoObject /\ rd = NoObject
    /\ ret = NoCall

\* every optional engine is installed
Init == installed = Optional /\ InitVars

\* any set of optional engines is installed
InitAnyEngines == installed \in SUBSET Optional /\ InitVars

Objects == <<hnsw, sk, fa, rd>>
Env == <<installed, module, available_engines, requested>>

\* import recsplain.similarity_helpers
Import ==
    /\ module = "unloaded"
    /\ module' = ImportModule(installed).status
    /\ available_engines' = ImportModule(installed).engines
    /\ UNCHANGED <<installed, requested, cls, Objects, ret>>

\* parse_server_name(sname), by a caller that has imported the module; where
\* the import raised, so does every use of the module
Resolve(sname) ==
    /\ module # "unloaded"
    /\ cls = "none"
    /\ ret' = Call("parse_server_name", sname,
                   IF module = "loaded" THEN Ok(parse_server_name(sname, available_engines))
                   ELSE Raise(module))
    /\ requested' = EngineOf(sname)
    /\ UNCHANGED <<installed, module, available_engines, cls, Objects>>

Resolved(c) == cls = "none" /\ ret.op = "parse_server_name" /\ ret.res = Ok(c)

\* the metrics a caller may ask for: the three of the adapters, one that only
\* scikit-learn knows and one that no engine knows
Metrics == Spaces \cup {"euclidean", "dot"}
\* the redis_credentials argument: None, or the keywords of a connection
Credentials == {None, "credentials"}

\* what a constructor call leaves besides the object: a line on stderr, a
\* Redis client, the vector index created on the server
Built(warned, client, index) == [warned |-> warned, client |-> client, index |-> index]
NoTrace == Built(FALSE, FALSE, FALSE)
Failed(e, trace) == [err |-> e, val |-> trace]

\* LazyHnsw(space, dim, ...): hnswlib.Index refuses a space name other than
\* l2, ip and cosine
LazyHnsw_construct(space, dim, max_elements, ef_construction, M) ==
    IF space \notin {"l2", "ip", "cosine"}
      THEN [st |-> NoObject, res |-> Failed("RuntimeError", NoTrace)]
      ELSE [st |-> LazyHnsw_new(space, dim, max_elements, ef_construction, M),
            res |-> Ok(NoTrace)]

\* the metrics of the model that NearestNeighbors knows
SkMetrics == {"l2", "cosine", "euclidean"}

\* SciKitNearestNeighbors(space, dim): "ip" becomes "cosine" with a line on
\* stderr; NearestNeighbors(metric=...) checks the metric in its constructor
\* in the releases before 0.24 of scikit-learn (checks) and in fit otherwise
SciKitNearestNeighbors_construct(space, dim, checks) ==
    LET self == SciKitNearestNeighbors_new(space, dim)
        trace == Built(space = "ip", FALSE, FALSE)
    IN IF self.space \notin SkMetrics /\ checks
         THEN [st |-> NoObject, res |-> Failed("ValueError", trace)]
         ELSE [st |-> self, res |-> Ok(trace)]

\* FaissIndexFactory(space, dim, index_factory): a line on stderr for cosine,
\* TypeError for a space other than ip, cosine and l2
FaissIndexFactory_construct(space, dim) ==
    IF space \in {"ip", "cosine", "l2"}
      THEN [st |-> FaissIndexFactory_new(space, dim),
            res |-> Ok(Built(space = "cosine", FALSE, FALSE))]
      ELSE [st |-> NoObject, res |-> Failed("TypeError", NoTrace)]

\* the mutant builds the client before it looks at the credentials
RedisIndex_construct_connect_first(space, dim, redis_credentials, max_elements, ef_construction, M) ==
    IF redis_credentials = None
      THEN [st |-> NoObject, res |-> Failed("Exception", Built(FALSE, TRUE, FALSE))]
    ELSE IF space \notin {"l2", "ip", "cosine"}
      THEN [st |-> NoObject, res |-> Failed("ResponseError", Built(FALSE, TRUE, FALSE))]
    ELSE [st |-> RedisIndex_new(space, dim, max_elements, ef_construction, M),
          res |-> Ok(Built(FALSE, TRUE, TRUE))]

\* RedisIndex(space, dim, redis_credentials=None, ...): without credentials it
\* raises before Redis(**redis_credentials); init_hnsw creates the index, which
\* the server refuses for a DISTANCE_METRIC other than L2, IP and COSINE
RedisIndex_construct(space, dim, redis_credentials, max_elements, ef_construction, M) ==
    IF redis_credentials = None
      THEN [st |-> NoObject, res |-> Failed("Exception", NoTrace)]
    ELSE IF space \notin {"l2", "ip", "cosine"}
      THEN [st |-> NoObject, res |-> Failed("ResponseError", Built(FALSE, TRUE, FALSE))]
    ELSE [st |-> RedisIndex_new(space, dim, max_elements, ef_construction, M),
          res |-> Ok(Built(FALSE, TRUE, TRUE))]

\* a constructor call: the object becomes the live index unless the call raised
ConstructLazyHnsw(space, dim, max_elements) ==
    /\ Resolved("LazyHnsw")
    /\ LET r == LazyHnsw_construct(space, dim, max_elements, DefaultEfConstruction, DefaultM)
       IN /\ cls' = IF r.res.err = "" THEN "LazyHnsw" ELSE cls
          /\ hnsw' = r.st
          /\ ret' = Call("construct", <<"LazyHnsw", space>>, r.res)
    /\ UNCHANGED <<Env, sk, fa, rd>>

ConstructSciKitNearestNeighbors(space, checks) ==
    /\ Resolved("SciKitNearestNeighbors")
    /\ LET r == SciKitNearestNeighbors_construct(space, 1, checks)
       IN /\ cls' = IF r.res.err = "" THEN "SciKitNearestNeighbors" ELSE cls
          /\ sk' = r.st
          /\ ret' = Call("construct", <<"SciKitNearestNeighbors", space>>, r.res)
    /\ UNCHANGED <<Env, hnsw, fa, rd>>

ConstructFaissIndexFactory(space) ==
    /\ Resolved("FaissIndexFactory")
    /\ LET r == FaissIndexFactory_construct(space, 1)
       IN /\ cls' = IF r.res.err = "" THEN "FaissIndexFactory" ELSE cls
          /\ fa' = r.st
          /\ ret' = Call("construct", <<"FaissIndexFactory", space>>, r.res)
    /\ UNCHANGED <<Env, hnsw, sk, rd>>

ConstructRedisIndex(space, redis_credentials, max_elements) ==
    /\ Resolved("RedisIndex")
    /\ LET r == RedisIndex_construct(space, 1, redis_credentials, max_elements,
                                     DefaultEfConstruction, DefaultM)
       IN /\ cls' = IF r.res.err = "" THEN "RedisIndex" ELSE cls
          /\ rd' = r.st
          /\ ret' = Call("construct", <<"RedisIndex", space, redis_credentials>>, r.res)
    /\ UNCHANGED <<Env, hnsw, sk, fa>>

-----------------------------------------------------------------------------
(* The methods of the live index.  Each action is one call; ret' is the call *)
(* and its outcome.  `fresh` in the argument of add_items says that the     *)
(* index had received no add_items before.                                  *)

AddArg(data, ids, fresh) == [data |-> data, ids |-> ids, fresh |-> fresh]

\* the allocator's answer is drawn only where a call asks it for zero bytes
ZeroSized(size) == size = 0 /\ hnsw.init_max_elements = 0

\* `rows` bounds the rows the index is given over its life
LazyHnswAddItems(rows, data, ids, zero_ok) ==
    /\ cls = "LazyHnsw"
    /\ hnsw.base.cur_l + Len(data) <= rows
    /\ zero_ok \/ (~hnsw.base.inited /\ ZeroSized(0))
    /\ LET r == LazyHnsw_add_items(hnsw, data, ids, zero_ok)
       IN /\ hnsw' = r.st
          /\ ret' = Call("add_items",
                         AddArg(data, ids, hnsw.base.cur_l = 0 /\ hnsw.base.items = <<>>),
                         r.res)
    /\ UNCHANGED <<Env, cls, sk, fa, rd>>

LazyHnswInit(max_elements, zero_ok) ==
    /\ cls = "LazyHnsw"
    /\ zero_ok \/ ZeroSized(max_elements)
    /\ LET r == LazyHnsw_init(hnsw, max_elements, zero_ok)
       IN hnsw' = r.st /\ ret' = Call("init", max_elements, r.res)
    /\ UNCHANGED <<Env, cls, sk, fa, rd>>

LazyHnswResizeIndex(size, zero_ok) ==
    /\ cls = "LazyHnsw"
    /\ zero_ok \/ ZeroSized(size) \/ (size = 0 /\ LazyHnsw_get_max_elements(hnsw) # 0)
    /\ LET r == LazyHnsw_resize_index(hnsw, size, zero_ok)
       IN hnsw' = r.st /\ ret' = Call("resize_index", size, r.res)
    /\ UNCHANGED <<Env, cls, sk, fa, rd>>

LazyHnswSetEf(ef) ==
    /\ cls = "LazyHnsw"
    /\ hnsw' = LazyHnsw_set_ef(hnsw, ef)
    /\ ret' = Call("set_ef", ef, Ok(None))
    /\ UNCHANGED <<Env, cls, sk, fa, rd>>

LazyHnswGetItems(ids) ==
    /\ cls = "LazyHnsw"
    /\ ret' = Call("get_items", ids, LazyHnsw_get_items(hnsw, ids))
    /\ UNCHANGED <<Env, cls, Objects>>

LazyHnswSearch(data, k) ==
    /\ cls = "LazyHnsw"
    /\ ret' = Call("search", <<data, k>>, LazyHnsw_search(hnsw, data, k))
    /\ UNCHANGED <<Env, cls, Objects>>

LazyHnswGetCurrentCount ==
    /\ cls = "LazyHnsw"
    /\ ret' = Call("get_current_count", <<>>, Ok(LazyHnsw_get_current_count(hnsw)))
    /\ UNCHANGED <<Env, cls, Objects>>

LazyHnswGetMaxElements ==
    /\ cls = "LazyHnsw"
    /\ ret' = Call("get_max_elements", <<>>, Ok(LazyHnsw_get_max_elements(hnsw)))
    /\ UNCHANGED <<Env, cls, Objects>>

SciKitAddItems(data, ids) ==
    /\ cls = "SciKitNearestNeighbors"
    /\ Len(sk.items) + Len(data) <= MaxRows
    /\ Len(sk.ids) + Len(ids.val) <= MaxRows
    /\ LET r == SciKitNearestNeighbors_add_items(sk, data, ids)
       IN /\ sk' = r.st
          /\ ret' = Call("add_items", AddArg(data, ids, sk.items = <<>> /\ sk.ids = <<>>),
                         r.res)
    /\ UNCHANGED <<Env, cls, hnsw, fa, rd>>

SciKitInit ==
    /\ cls = "SciKitNearestNeighbors"
    /\ LET r == SciKitNearestNeighbors_init(sk)
       IN sk' = r.st /\ ret' = Call("init", <<>>, r.res)
    /\ UNCHANGED <<Env, cls, hnsw, fa, rd>>

SciKitGetItems(ids) ==
    /\ cls = "SciKitNearestNeighbors"
    /\ ret' = Call("get_items", ids, SciKitNearestNeighbors_get_items(sk, ids))
    /\ UNCHANGED <<Env, cls, Objects>>

SciKitSearch(data, k) ==
    /\ cls = "SciKitNearestNeighbors"
    /\ LET r == SciKitNearestNeighbors_search(sk, data, k)
       IN sk' = r.st /\ ret' = Call("search", <<data, k>>, r.res)
    /\ UNCHANGED <<Env, cls, hnsw, fa, rd>>

SciKitGetCurrentCount ==
    /\ cls = "SciKitNearestNeighbors"
    /\ ret' = Call("get_current_count", <<>>,
                   Ok(SciKitNearestNeighbors_get_current_count(sk)))
    /\ UNCHANGED <<Env, cls, Objects>>

SciKitGetMaxElements ==
    /\ cls = "SciKitNearestNeighbors"
    /\ ret' = Call("get_max_elements", <<>>,
                   Ok(SciKitNearestNeighbors_get_max_elements(sk)))
    /\ UNCHANGED <<Env, cls, Objects>>

FaissAddItems(data, ids) ==
    /\ cls = "FaissIndexFactory"
    /\ Len(fa.rows) + Len(data) <= MaxRows
    /\ LET r == FaissIndexFactory_add_items(fa, data, ids)
       IN /\ fa' = r.st
          /\ ret' = Call("add_items", AddArg(data, ids, fa.rows = <<>>), r.res)
    /\ UNCHANGED <<Env, cls, hnsw, sk, rd>>

FaissGetItems(ids) ==
    /\ cls = "FaissIndexFactory"
    /\ ret' = Call("get_items", ids, FaissIndexFactory_get_items(fa, ids))
    /\ UNCHANGED <<Env, cls, Objects>>

FaissSearch(data, k) ==
    /\ cls = "FaissIndexFactory"
    /\ ret' = Call("search", <<data, k>>, FaissIndexFactory_search(fa, data, k))
    /\ UNCHANGED <<Env, cls, Objects>>

FaissGetCurrentCount ==
    /\ cls = "FaissIndexFactory"
    /\ ret' = Call("get_current_count", <<>>, Ok(FaissIndexFactory_get_current_count(fa)))
    /\ UNCHANGED <<Env, cls, Objects>>

FaissGetMaxElements ==
    /\ cls = "FaissIndexFactory"
    /\ ret' = Call("get_max_elements", <<>>, Ok(FaissIndexFactory_get_max_elements(fa)))
    /\ UNCHANGED <<Env, cls, Objects>>

RedisAddItems(data, ids, done) ==
    /\ cls = "RedisIndex"
    /\ done <= (IF ids.some THEN Min(Len(data), Len(ids.val)) ELSE 0)
    /\ LET r == RedisIndex_add_items(rd, data, ids, done)
       IN /\ rd' = r.st
          /\ ret' = Call("add_items", AddArg(data, ids, DOMAIN rd.store = {}), r.res)
    /\ UNCHANGED <<Env, cls, hnsw, sk, fa>>

RedisGetItems(ids) ==
    /\ cls = "RedisIndex"
    /\ ret' = Call("get_items", ids, RedisIndex_get_items(rd, ids))
    /\ UNCHANGED <<Env, cls, Objects>>

RedisSearch(data, k) ==
    /\ cls = "RedisIndex"
    /\ ret' = Call("search", <<data, k>>, RedisIndex_search(rd, data, k))
    /\ UNCHANGED <<Env, cls, Objects>>

RedisGetCurrentCount ==
    /\ cls = "RedisIndex"
    /\ ret' = Call("get_current_count", <<>>, RedisIndex_get_current_count(rd))
    /\ UNCHANGED <<Env, cls, Objects>>

RedisGetMaxElements ==
    /\ cls = "RedisIndex"
    /\ ret' = Call("get_max_elements", <<>>, Ok(RedisIndex_get_max_elements(rd)))
    /\ UNCHANGED <<Env, cls, Objects>>

\* with index: ... entered
RedisEnter ==
    /\ cls = "RedisIndex"
    /\ rd.scopes < MaxScopes
    /\ rd' = RedisIndex_enter(rd)
    /\ ret' = Call("__enter__", <<>>, Ok(None))
    /\ UNCHANGED <<Env, cls, hnsw, sk, fa>>

\* the innermost open with-block is left
RedisExit ==
    /\ cls = "RedisIndex"
    /\ rd.scopes > 0
    /\ LET r == RedisIndex_exit(rd)
       IN rd' = r.st /\ ret' = Call("__exit__", <<>>, r.res)
    /\ UNCHANGED <<Env, cls, hnsw, sk, fa>>

Select ==
    \/ Import
    \/ \E sname \in Names : Resolve(sname)
    \/ \E space \in Spaces, max_elements \in Caps : ConstructLazyHnsw(space, 1, max_elements)
    \/ \E space \in Spaces : ConstructSciKitNearestNeighbors(space, TRUE)
    \/ \E space \in Spaces : ConstructFaissIndexFactory(space)
    \/ \E space \in Spaces, redis_credentials \in Credentials, max_elements \in Caps :
          ConstructRedisIndex(space, redis_credentials, max_elements)

Reads ==
    \/ \E ids \in IdLists : LazyHnswGetItems(ids)
    \/ \E data \in Queries, k \in Ks : LazyHnswSearch(data, k)
    \/ LazyHnswGetCurrentCount
    \/ LazyHnswGetMaxElements
    \/ \E ids \in IdLists : SciKitGetItems(ids)
    \/ \E data \in Queries, k \in Ks : SciKitSearch(data, k)
    \/ SciKitGetCurrentCount
    \/ SciKitGetMaxElements
    \/ \E ids \in IdLists : FaissGetItems(ids)
    \/ \E data \in Queries, k \in Ks : FaissSearch(data, k)
    \/ FaissGetCurrentCount
    \/ FaissGetMaxElements
    \/ \E ids \in IdLists : RedisGetItems(ids)
    \/ \E data \in Queries, k \in Ks : RedisSearch(data, k)
    \/ RedisGetCurrentCount
    \/ RedisGetMaxElements

Writes ==
    \/ \E data \in Batches, ids \in IdLists, zero_ok \in BOOLEAN :
          LazyHnswAddItems(MaxRows, data, ids, zero_ok)
    \/ \E max_elements \in Caps, zero_ok \in BOOLEAN : LazyHnswInit(max_elements, zero_ok)
    \/ \E size \in Caps, zero_ok \in BOOLEAN : LazyHnswResizeIndex(size, zero_ok)
    \/ \E ef \in Efs : LazyHnswSetEf(ef)
    \/ \E data \in Batches, ids \in IdLists : SciKitAddItems(data, ids)
    \/ SciKitInit
    \/ \E data \in Batches, ids \in IdLists : FaissAddItems(data, ids)
    \/ \E data \in Batches, ids \in IdLists, done \in 0 .. MaxBatch :
          RedisAddItems(data, ids, done)

Next == Select \/ Reads \/ Writes

Spec == Init /\ [][Next]_vars

\* the selector under every set of installed engines, and the index it yields
\* before any insertion
NextSelect == Select \/ Reads

SpecSelect == InitAnyEngines /\ [][NextSelect]_vars

-----------------------------------------------------------------------------
(* The selector. *)

SciKit == "SciKitNearestNeighbors"
IsParse == ret.op = "parse_server_name"

\* what C1 says parse_server_name returns
C1_Expected(sname, engines) ==
    IF sname \in {N_hnswlib, N_hnsw} /\ "hnswlib" \in engines THEN "LazyHnsw"
    ELSE IF sname \in {N_faiss, N_flatfaiss} /\ "faiss" \in engines THEN "FaissIndexFactory"
    ELSE IF sname = N_redis /\ "redis" \in engines THEN "RedisIndex"
    ELSE SciKit

\* C1: for every name and every set of available engines parse_server_name
\* returns an adapter class and never fails: the class of the backend the name
\* is an alias of when that backend's dependency is available, and
\* SciKitNearestNeighbors in every other case.
C1_ParseTotal ==
    IsParse => /\ ret.res.err = ""
               /\ ret.res.val = C1_Expected(ret.arg, {"sklearn"} \cup installed)

\* C10 as stated: names that differ only in letter case resolve to the same
\* adapter class under every set of available engines, and the networked-store
\* backend is reachable through more than one alias.
C10_CaseInsensitive ==
    (IsParse /\ ret.res.err = "") =>
        /\ \A n \in Names :
              Lower(n) = Lower(ret.arg) =>
                  parse_server_name(n, available_engines) = ret.res.val
        /\ ret.res.val = "RedisIndex" =>
              \E n \in Names : n # ret.arg
                               /\ parse_server_name(n, available_engines) = "RedisIndex"

\* C10 amended: parse_server_name matches the aliases exactly.  A name resolves
\* to LazyHnsw, FaissIndexFactory or RedisIndex only when it is spelled in lower
\* case as one of that backend's aliases; a name that differs from an alias in
\* letter case resolves to SciKitNearestNeighbors; hnswlib and faiss have two
\* aliases each and the networked store one, "redis".
C10_CaseSensitive ==
    (IsParse /\ ret.res.err = "") =>
        /\ ret.arg # Lower(ret.arg) => ret.res.val = SciKit
        /\ ret.res.val = "LazyHnsw" => ret.arg \in {N_hnswlib, N_hnsw}
        /\ ret.res.val = "FaissIndexFactory" => ret.arg \in {N_faiss, N_flatfaiss}
        /\ ret.res.val = "RedisIndex" => ret.arg = N_redis

\* FAISS is asked for with faiss available, and the reference adapter comes back
C10_Witness ==
    /\ IsParse
    /\ ret.arg = <<"F", "A", "I", "S", "S">>
    /\ "faiss" \in available_engines
    /\ ret.res = Ok(SciKit)

-----------------------------------------------------------------------------
(* The index before any insertion. *)

EmptySearch == << <<>>, <<>> >>

\* the calls the empty-index contract names
EmptyContract ==
    /\ ret.op = "get_current_count" => ret.res.err = "" /\ ret.res.val = 0
    /\ ret.op = "search" => ret.res = Ok(EmptySearch)
    /\ ret.op = "get_items" => ret.res = Ok(<<>>)

\* C5: an index obtained through selector fallback (SciKitNearestNeighbors
\* returned for a backend whose dependency is absent) with no items inserted
\* answers get_current_count() with 0, search with an empty result and
\* get_items with an empty result, without raising.
C5_FallbackEmptyIndex ==
    (cls = SciKit /\ requested \in Optional /\ sk.items = <<>>) => EmptyContract

IsRead == ret.op \in {"get_current_count", "search", "get_items"}

\* C4: on a LazyHnsw index with capacity 0, get_current_count() returns 0,
\* search returns an empty result and get_items returns an empty result, for
\* every argument; none of them raises, and none changes the index.
C4_UninitializedReads ==
    [][(cls = "LazyHnsw" /\ LazyHnsw_get_max_elements(hnsw) = 0 /\ IsRead')
          => (EmptyContract' /\ hnsw' = hnsw)]_vars

\* get_items is asked for an id on an index that was never allocated
C4_Witness ==
    /\ cls = "LazyHnsw"
    /\ ~hnsw.base.inited
    /\ ret.op = "get_items"
    /\ ret.arg = Some(<<1>>)
    /\ ret.res = Ok(<<>>)

-----------------------------------------------------------------------------
(* Capacity of LazyHnsw. *)

IsHnsw == cls = "LazyHnsw"
Capacity == LazyHnsw_get_max_elements(hnsw)
Count == LazyHnsw_get_current_count(hnsw)

\* a request for zero elements, whose outcome rests with the allocator
ZeroRequest == ret.op \in {"init", "resize_index"} /\ ret.arg = 0

\* C6: the capacity reported by get_max_elements() never decreases along any
\* sequence of operations; an allocated index never returns to capacity 0.
\* (Stated for every call but a request for zero elements.)
C6_CapacityMonotone == [][(IsHnsw /\ ~ZeroRequest') => Capacity' >= Capacity]_vars

\* C7: count <= capacity in every reachable state, and the engine is never
\* asked to insert a batch that does not fit: no add_items ends in the engine's
\* capacity error, whatever the declared capacity and the batch sizes.
C7_CountWithinCapacity ==
    IsHnsw => /\ Count <= Capacity
              /\ Len(hnsw.base.items) <= hnsw.base.max_elements_
              /\ ret.op = "add_items" => ret.res.err # ErrLimit

\* a batch of two was inserted into an index declared with capacity 0
C7_Witness ==
    /\ IsHnsw
    /\ hnsw.init_max_elements = 0
    /\ ret.op = "add_items" /\ ret.res.err = ""
    /\ Count = 2 /\ Capacity = 2

\* a batch add_items accepts: ids given, one per row, none of them stored yet
NewBatch(arg) ==
    /\ arg.data # <<>>
    /\ arg.ids.some
    /\ Len(arg.ids.val) = Len(arg.data)
    /\ \A i, j \in DOMAIN arg.ids.val : i # j => arg.ids.val[i] # arg.ids.val[j]
    /\ \A i \in DOMAIN arg.ids.val : arg.ids.val[i] \notin HnswLabels(hnsw.base)

\* C8: an add_items that brings the index to more items than the capacity it
\* was declared with succeeds (short of the allocator running out of memory),
\* and every id inserted before is still retrievable by get_items with its
\* vector.
C8_GrowthKeepsItems ==
    [][(IsHnsw /\ ret'.op = "add_items" /\ NewBatch(ret'.arg)
          /\ Count + Len(ret'.arg.data) > hnsw.init_max_elements)
        => /\ ret'.res.err \in {"", ErrNoMemory}
           /\ \A i \in DOMAIN hnsw.base.items :
                 LazyHnsw_get_items(hnsw', Some(<<hnsw.base.items[i].id>>))
                    = Ok(<<hnsw.base.items[i].vec>>)]_vars

-----------------------------------------------------------------------------
(* The contract of the live index, whatever its class. *)

\* what the calls would return in the current state
CurSearch(data, k) ==
    CASE cls = "LazyHnsw" -> LazyHnsw_search(hnsw, data, k)
      [] cls = SciKit -> SciKitNearestNeighbors_search(sk, data, k).res
      [] cls = "FaissIndexFactory" -> FaissIndexFactory_search(fa, data, k)
      [] cls = "RedisIndex" -> RedisIndex_search(rd, data, k)
CurGetItems(ids) ==
    CASE cls = "LazyHnsw" -> LazyHnsw_get_items(hnsw, ids)
      [] cls = SciKit -> SciKitNearestNeighbors_get_items(sk, ids)
      [] cls = "FaissIndexFactory" -> FaissIndexFactory_get_items(fa, ids)
      [] cls = "RedisIndex" -> RedisIndex_get_items(rd, ids)
CurCount ==
    CASE cls = "LazyHnsw" -> Ok(LazyHnsw_get_current_count(hnsw))
      [] cls = SciKit -> Ok(SciKitNearestNeighbors_get_current_count(sk))
      [] cls = "FaissIndexFactory" -> Ok(FaissIndexFactory_get_current_count(fa))
      [] cls = "RedisIndex" -> RedisIndex_get_current_count(rd)
\* the stored items and ids
Stored ==
    CASE cls = "LazyHnsw" -> hnsw.base.items
      [] cls = SciKit -> <<sk.items, sk.ids>>
      [] cls = "FaissIndexFactory" -> fa.rows
      [] cls = "RedisIndex" -> rd.store
      [] OTHER -> <<>>
\* the ids that add_items has stored (RedisIndex hands them out as strings)
StoredIds ==
    CASE cls = "LazyHnsw" -> HnswLabels(hnsw.base)
      [] cls = SciKit -> Range(sk.ids)
      [] cls = "FaissIndexFactory" -> FaissIds(fa)
      [] cls = "RedisIndex" -> {rd.store[key].item_id : key \in DOMAIN rd.store}

\* the same search, made again in the state the first one left
SearchAgain == CurSearch(ret.arg[1], ret.arg[2])

\* C9: two consecutive search(queries, k) calls with no add_items between them
\* return identical results (or raise the same error), and the first leaves the
\* stored items, ids and count unchanged.
C9_SearchIdempotent ==
    /\ [](ret.op = "search" => SearchAgain = ret.res)
    /\ [][ret'.op = "search" => (Stored' = Stored /\ CurCount' = CurCount)]_vars

\* a search on the reference adapter that had to fit first, and returned
C9_Witness ==
    /\ cls = SciKit
    /\ ret.op = "search" /\ ret.res.err = ""
    /\ sk.fitted /\ Len(sk.fit_X) = 2

\* a batch S of items with unique ids, added to a fresh index
FreshBatch ==
    /\ ret.op = "add_items" /\ ret.res.err = ""
    /\ ret.arg.fresh
    /\ ret.arg.ids.some
    /\ Len(ret.arg.ids.val) = Len(ret.arg.data)
    /\ \A i, j \in DOMAIN ret.arg.ids.val : i # j => ret.arg.ids.val[i] # ret.arg.ids.val[j]

\* C2: for every adapter class the selector can return, after add_items(S) on
\* a fresh index get_current_count() returns len(S) and get_items(ids(S))
\* returns the inserted vectors, in the order the ids were requested.
C2_AddThenRead ==
    FreshBatch => /\ CurCount = Ok(Len(ret.arg.data))
                  /\ CurGetItems(ret.arg.ids) = Ok(ret.arg.data)

\* the rows of a search result: RedisIndex returns one flat (scores, ids) pair
\* with the scores as strings, the others a row per query
ResultRows(val) ==
    IF cls = "RedisIndex"
      THEN << [scores |-> [i \in DOMAIN val[1] |->
                              CHOOSE n \in -99 .. 99 : Str(n) = val[1][i]],
               ids |-> val[2]] >>
      ELSE [q \in DOMAIN val[1] |-> [scores |-> val[1][q], ids |-> val[2][q]]]

\* best first: scores ascend, or descend for the inner product of faiss
Ordered(scores) ==
    \A i \in 1 .. Len(scores) - 1 :
        IF cls = "FaissIndexFactory" /\ fa.metric = "ip"
          THEN scores[i] >= scores[i + 1]
          ELSE scores[i] <= scores[i + 1]

\* C3: on a populated index search(queries, k) returns per query at most k
\* (score, id) pairs, every returned id was passed to an earlier add_items, and
\* the pairs are ordered best first.
C3_SearchContract ==
    (ret.op = "search" /\ ret.res.err = "" /\ StoredIds # {}) =>
        \A q \in DOMAIN ResultRows(ret.res.val) :
            LET row == ResultRows(ret.res.val)[q]
            IN /\ Len(row.ids) <= ret.arg[2]
               /\ Len(row.scores) = Len(row.ids)
               /\ \A i \in DOMAIN row.ids : row.ids[i] \in StoredIds
               /\ Ordered(row.scores)

-----------------------------------------------------------------------------
(* The reference adapter's own state. *)

\* C17: for SciKitNearestNeighbors, in every reachable state fitted = True
\* implies that the estimator was fitted on exactly the current contents of
\* items, after every sequence of init, add_items (with or without ids,
\* returning or raising) and search.
C17_FittedNeverStale ==
    (cls = SciKit /\ sk.fitted) => sk.fit_X = sk.items

\* C18: for SciKitNearestNeighbors, after every add_items, whether it returns
\* or raises and whatever the lengths of data and ids (ids = None included),
\* len(items) = len(ids) and get_current_count() is the number of stored ids:
\* a batch lands whole or not at all.
C18_ListsAligned ==
    (cls = SciKit /\ ret.op = "add_items") =>
        /\ Len(sk.items) = Len(sk.ids)
        /\ SciKitNearestNeighbors_get_current_count(sk) = Len(sk.ids)

-----------------------------------------------------------------------------
(* The first allocation of LazyHnsw. *)

\* the allocation the first add_items makes (init(), line 112), where the
\* allocator answers
FirstAllocation == LazyHnsw_init(hnsw, 0, TRUE).st

\* C16: the first add_items of a LazyHnsw index allocates storage with the
\* capacity declared at construction, or with a positive default when that was
\* 0; the index is allocated, with a capacity above 0, before the first item
\* is inserted.
C16_FirstAllocation ==
    [][(IsHnsw /\ ~hnsw.base.inited /\ ret'.op = "add_items")
          => /\ LazyHnsw_get_max_elements(FirstAllocation) > 0
             /\ hnsw.init_max_elements > 0 =>
                   LazyHnsw_get_max_elements(FirstAllocation) = hnsw.init_max_elements
             /\ hnsw'.base.inited
             /\ Capacity' > 0]_vars

\* C20: the declared capacity, M and ef_construction stored at construction
\* are the ones used at the first allocation: get_items, search and set_ef on
\* an index that is not allocated change none of them and allocate nothing,
\* and the allocation is made with the constructor's M and ef_construction.
C20_ParametersKept ==
    [][(IsHnsw /\ ~hnsw.base.inited) =>
          /\ ret'.op \in {"get_items", "search", "set_ef"} =>
                /\ ~hnsw'.base.inited
                /\ hnsw'.init_max_elements = hnsw.init_max_elements
                /\ hnsw'.init_M = hnsw.init_M
                /\ hnsw'.init_ef_construction = hnsw.init_ef_construction
          /\ hnsw'.base.inited =>
                /\ hnsw'.base.M = DefaultM
                /\ hnsw'.base.ef_construction = DefaultEfConstruction]_vars

-----------------------------------------------------------------------------
(* Batches with vectors of another length than the index's dimensionality. *)

\* a vector of length 2, for the indexes of dimensionality 1
LongVectors == [1 .. 2 -> {0}]
BatchesAnyDim == SeqsUpTo(Vectors \cup LongVectors, MaxBatch)

\* add_items of every adapter, with rows of any length
AddsAnyDim ==
    \/ \E data \in BatchesAnyDim, ids \in IdLists, zero_ok \in BOOLEAN :
          LazyHnswAddItems(MaxRows, data, ids, zero_ok)
    \/ \E data \in BatchesAnyDim, ids \in IdLists : SciKitAddItems(data, ids)
    \/ \E data \in BatchesAnyDim, ids \in IdLists : FaissAddItems(data, ids)
    \/ \E data \in BatchesAnyDim, ids \in IdLists, done \in 0 .. MaxBatch :
          RedisAddItems(data, ids, done)

NextDim == Select \/ AddsAnyDim

SpecDim == Init /\ [][NextDim]_vars

\* the dimensionality the live index was declared with
IndexDim ==
    CASE cls = "LazyHnsw" -> hnsw.base.dim
      [] cls = SciKit -> sk.dim
      [] cls = "FaissIndexFactory" -> fa.dim
      [] cls = "RedisIndex" -> rd.dim

WrongDim(data, dim) == \E i \in DOMAIN data : Len(data[i]) # dim

\* C12: add_items with a batch containing a vector whose length differs from
\* the index's dimensionality fails, and after the failed call the stored
\* items, ids and count are what they were before it.
C12_DimensionMismatchRejected ==
    [][(ret'.op = "add_items" /\ WrongDim(ret'.arg.data, IndexDim))
          => /\ ret'.res.err # ""
             /\ Stored' = Stored
             /\ CurCount' = CurCount]_vars

-----------------------------------------------------------------------------
(* Construction with any metric, with and without credentials. *)

ConstructAnyMetric ==
    \/ \E space \in Metrics, max_elements \in Caps : ConstructLazyHnsw(space, 1, max_elements)
    \/ \E space \in Metrics, checks \in BOOLEAN : ConstructSciKitNearestNeighbors(space, checks)
    \/ \E space \in Metrics : ConstructFaissIndexFactory(space)
    \/ \E space \in Metrics, redis_credentials \in Credentials, max_elements \in Caps :
          ConstructRedisIndex(space, redis_credentials, max_elements)

NextMetric ==
    \/ Import
    \/ \E sname \in Names : Resolve(sname)
    \/ ConstructAnyMetric

SpecMetric == InitAnyEngines /\ [][NextMetric]_vars

IsConstruct == ret.op = "construct"

\* the metrics each engine ranks by, and the downgrades the adapters make
EngineMetrics(c) ==
    CASE c = "LazyHnsw" -> {"l2", "ip", "cosine"}
      [] c = SciKit -> SkMetrics
      [] c = "FaissIndexFactory" -> {"l2", "ip"}
      [] c = "RedisIndex" -> {"l2", "ip", "cosine"}
Downgraded(c, space) ==
    \/ c = "FaissIndexFactory" /\ space = "cosine"
    \/ c = SciKit /\ space = "ip"
\* the metric the live index ranks by
RankedBy ==
    CASE cls = "LazyHnsw" -> hnsw.base.space
      [] cls = SciKit -> sk.space
      [] cls = "FaissIndexFactory" -> fa.metric
      [] cls = "RedisIndex" -> rd.space

\* C13: constructing an adapter with a metric that has no mapping for its
\* engine fails at construction time and produces no index; a metric that is
\* downgraded is announced by a warning, so that no adapter is constructed
\* that silently ranks by another metric than the requested one.
C13_UnsupportedMetricSurfaced ==
    (IsConstruct /\ (ret.arg[1] # "RedisIndex" \/ ret.arg[3] # None)) =>
        /\ (ret.arg[2] \notin EngineMetrics(ret.arg[1]) /\ ~Downgraded(ret.arg[1], ret.arg[2]))
              => (ret.res.err # "" /\ cls = "none")
        /\ (ret.res.err = "" /\ Downgraded(ret.arg[1], ret.arg[2])) => ret.res.val.warned
        /\ ret.res.err = "" => (RankedBy = ret.arg[2] \/ ret.res.val.warned)

\* C14: constructing RedisIndex without credentials fails, before a Redis
\* client is built and before the remote vector index is created; no index
\* object is produced.
C14_MissingCredentials ==
    (IsConstruct /\ ret.arg[1] = "RedisIndex" /\ ret.arg[3] = None) =>
        /\ ret.res.err = "Exception"
        /\ ~ret.res.val.client
        /\ ~ret.res.val.index
        /\ cls = "none" /\ rd = NoObject

\* RedisIndex was constructed without credentials, with a metric the server knows
C14_Witness ==
    /\ IsConstruct
    /\ ret.arg = <<"RedisIndex", "cosine", None>>
    /\ ret.res.err # ""

-----------------------------------------------------------------------------
(* The write scopes of RedisIndex. *)

NextRedis ==
    \/ Select
    \/ \E data \in Batches, ids \in IdLists, done \in 0 .. MaxBatch :
          RedisAddItems(data, ids, done)
    \/ RedisEnter
    \/ RedisExit

SpecRedis == Init /\ [][NextRedis]_vars

IsRedis == cls = "RedisIndex"

\* C11: RedisIndex.add_items is all-or-nothing: for every batch, either every
\* item of the batch is written to the store or none is, whether the call
\* returns or fails while enqueueing or executing.
C11_BatchAllOrNothing ==
    [][(IsRedis /\ ret'.op = "add_items") =>
          \/ rd'.store = rd.store
          \/ /\ ret'.arg.ids.some
             /\ Len(ret'.arg.ids.val) >= Len(ret'.arg.data)
             /\ rd'.store = RedisExecute(rd.store,
                                         RedisHsets(ret'.arg.data, ret'.arg.ids.val))]_vars

\* C19: a RedisIndex has at most one open write scope at a time: while a scope
\* is open, a nested __enter__ or an add_items is rejected or leaves the open
\* pipeline handle in place, and __exit__ never runs on a missing handle.
C19_SingleWriteScope ==
    [][IsRedis =>
          /\ (rd.scopes > 0 /\ ret'.op \in {"__enter__", "add_items"})
                => (rd.pipe.some => rd'.pipe.some)
          /\ (rd.scopes > 0 /\ ret'.op = "__enter__") => ret'.res.err # ""
          /\ ret'.op = "__exit__" => ret'.res.err = ""]_vars

-----------------------------------------------------------------------------
(* The scenario of a LazyHnsw('l2', 4, 2): vectors of four equal            *)
(* coordinates under the ids 1, 2 and 3, and searches for one of them.      *)

\* the rows a scenario index is given over its life
MaxScenarioRows == 3

\* the vectors and the ids of the scenario; a call is made with a run of
\* consecutive vectors and a run of consecutive ids (the empty run included)
ScenarioData == << <<0, 0, 0, 0>>, <<1, 1, 1, 1>>, <<2, 2, 2, 2>> >>
ScenarioLabels == <<1, 2, 3>>
Runs(s) == {SubSeq(s, i, j) : i \in 1 .. Len(s), j \in 0 .. Len(s)}
ScenarioBatches == Runs(ScenarioData)
ScenarioIdLists == {Some(l) : l \in Runs(ScenarioLabels)}
ScenarioQueries == {<<q>> : q \in Range(ScenarioData)}

NextScenario ==
    \/ Import
    \/ \E sname \in Names : Resolve(sname)
    \/ ConstructLazyHnsw("l2", 4, 2)
    \/ \E data \in ScenarioBatches, ids \in ScenarioIdLists :
          LazyHnswAddItems(MaxScenarioRows, data, ids, TRUE)
    \/ \E data \in ScenarioQueries, k \in Ks : LazyHnswSearch(data, k)
    \/ LazyHnswGetCurrentCount
    \/ LazyHnswGetMaxElements

SpecScenario == Init /\ [][NextScenario]_vars

\* the rows of the scenario as the index stores them
ScenarioFirst == << [id |-> 1, vec |-> <<0, 0, 0, 0>>], [id |-> 2, vec |-> <<1, 1, 1, 1>>] >>
ScenarioAll == Append(ScenarioFirst, [id |-> 3, vec |-> <<2, 2, 2, 2>>])

\* the second insertion of the scenario: add_items([[2,2,2,2]], [3]) on the
\* index that holds the first two rows at capacity 2 stores the row and leaves
\* the capacity at 3
ScenarioGrowth ==
    (/\ cls = "LazyHnsw"
     /\ hnsw.base.space = "l2" /\ hnsw.base.dim = 4 /\ hnsw.init_max_elements = 2
     /\ hnsw.base.items = ScenarioFirst
     /\ LazyHnsw_get_max_elements(hnsw) = 2
     /\ ret'.op = "add_items"
     /\ ret'.arg.data = << <<2, 2, 2, 2>> >>
     /\ ret'.arg.ids = Some(<<3>>))
    => /\ ret'.res.err = ""
       /\ hnsw'.base.items = ScenarioAll
       /\ LazyHnsw_get_max_elements(hnsw') = 3

\* the index holds the three rows of the scenario and the last call was
\* search([[0,0,0,0]], 2)
ScenarioSearched ==
    /\ cls = "LazyHnsw"
    /\ hnsw.base.space = "l2" /\ hnsw.base.dim = 4 /\ hnsw.init_max_elements = 2
    /\ hnsw.base.items = ScenarioAll
    /\ ret.op = "search"
    /\ ret.arg = << << <<0, 0, 0, 0>> >>, 2 >>

=============================================================================
